---- MODULE Spec2Model ----
(***************************************************************************)
(* Model of packages/toolkit-cli/bin/setup-npm-github.js (the refactored   *)
(* script, lines 499-868): a macOS-only command that stores a GitHub       *)
(* Packages token in the Keychain, appends a loader block to the shell rc  *)
(* file and merges two directive lines into ~/.npmrc.                      *)
(*                                                                         *)
(* Text is modelled as a sequence of lexemes (strings).  A lexeme is an    *)
(* atom of the text: the fixed substrings the script tests for ("--", "=", *)
(* the registry suffix, the auth-token prefix, the Keychain service name)  *)
(* are lexemes of their own, so startsWith / endsWith / includes / split / *)
(* join / trim are computed on the sequence exactly as JavaScript computes *)
(* them on the characters.                                                 *)
(***************************************************************************)
EXTENDS Integers, Sequences, FiniteSets, TLC

VARIABLES
    argv,       \* process.argv.slice(2) of the current run
    platform,   \* os.platform()
    shell,      \* path.basename(process.env.SHELL || '')
    envToken,   \* process.env.NPM_TOKEN ('' when unset)
    pc,         \* position of the process
    parsed,     \* result of parseArgs
    org,        \* parsed.org || ORG_DEFAULT
    dryRun,     \* Boolean(parsed['dry-run'])
    tokenArg,   \* parsed.token || ''
    buf,        \* readHidden's buffer
    rawMode,    \* stdin raw mode engaged by readHidden
    read,       \* readHidden: the data received, the value resolved, the listener
    token,      \* the token getToken returned
    vault,      \* Keychain entry (account $USER, service KEYCHAIN_SERVICE)
    homeDir,    \* TRUE when os.homedir() exists
    fs,         \* the rc files and ~/.npmrc
    exitCode,   \* exit status once pc = "exited"
    exitReason, \* which exit was taken
    trace,      \* stages and events of the current run, in order
    vault0,     \* the Keychain entry when the current run started
    fs0,        \* the files when the current run started
    home0,      \* homeDir when the current run started
    run,        \* number of the current run
    console,    \* console messages of the current run, in order
    answer,     \* the line typed at the confirmation prompt of the current run
    history,    \* what the earlier runs were: their org, and whether they wrote
    argv2,      \* parse check: the same vector written with "--k" "v"
    parsed2,    \* parse check: parseArgs of argv2
    pair,       \* parse check: the key and the value
    verify      \* validateNpm: the Keychain read, the secret used, the npm whoami result

vars == <<argv, platform, shell, envToken, pc, parsed, org, dryRun, tokenArg,
          buf, rawMode, read, token, vault, homeDir, fs, exitCode, exitReason,
          trace, vault0, fs0, home0, run, console, answer,
          history, argv2, parsed2, pair, verify>>

(***************************************************************************)
(* Bounds of the model.                                                    *)
(***************************************************************************)
MaxArgs == 2     \* longest argument vector
MaxBuf == 2      \* most keystroke chunks buffered by readHidden
MaxRuns == 2     \* runs of the command in succession
MaxLines == 3    \* lines of a pre-existing ~/.npmrc in the merge check

(***************************************************************************)
(* Lexemes.                                                                *)
(***************************************************************************)
LF == "\n"
CR == "\r"
SP == " "
CtrlC == "^C"
DD == "--"
EQ == "="
EmptyStr == << >>
UserRef == "$USER"
UserName == "dev"
UnsetRef == "$UNSET"
Quote == "\""

Whitespace == {SP, LF, CR}

(***************************************************************************)
(* String functions of JavaScript, on lexeme sequences.                    *)
(***************************************************************************)
StartsWith(s, p) ==
    /\ Len(p) <= Len(s)
    /\ SubSeq(s, 1, Len(p)) = p

EndsWith(s, p) ==
    /\ Len(p) <= Len(s)
    /\ SubSeq(s, Len(s) - Len(p) + 1, Len(s)) = p

Includes(s, p) ==
    \E i \in 0..(Len(s) - Len(p)) : SubSeq(s, i + 1, i + Len(p)) = p

RECURSIVE TrimStart(_)
TrimStart(s) ==
    IF s # << >> /\ Head(s) \in Whitespace THEN TrimStart(Tail(s)) ELSE s

RECURSIVE TrimEnd(_)
TrimEnd(s) ==
    IF s # << >> /\ s[Len(s)] \in Whitespace
    THEN TrimEnd(SubSeq(s, 1, Len(s) - 1))
    ELSE s

Trim(s) == TrimEnd(TrimStart(s))

LowerOf(c) ==
    CASE c = "Y" -> "y"
      [] c = "E" -> "e"
      [] c = "S" -> "s"
      [] c = "N" -> "n"
      [] OTHER -> c

ToLowerCase(s) == [i \in 1..Len(s) |-> LowerOf(s[i])]

\* s.split(sep): the pieces between the occurrences of the lexeme sep.
RECURSIVE SplitFrom(_, _, _)
SplitFrom(s, sep, cur) ==
    IF s = << >> THEN <<cur>>
    ELSE IF Head(s) = sep THEN <<cur>> \o SplitFrom(Tail(s), sep, << >>)
    ELSE SplitFrom(Tail(s), sep, Append(cur, Head(s)))

Split(s, sep) == SplitFrom(s, sep, << >>)

\* parts.join(sep)
RECURSIVE Join(_, _)
Join(parts, sep) ==
    IF parts = << >> THEN << >>
    ELSE IF Len(parts) = 1 THEN parts[1]
    ELSE parts[1] \o <<sep>> \o Join(Tail(parts), sep)

Range(s) == {s[i] : i \in 1..Len(s)}

\* All sequences over S of length at most n.
RECURSIVE SeqsUpTo(_, _)
SeqsUpTo(S, n) ==
    IF n = 0 THEN {<< >>}
    ELSE LET shorter == SeqsUpTo(S, n - 1)
         IN  shorter \cup {Append(q, x) : q \in shorter, x \in S}

(***************************************************************************)
(* JavaScript values of the parsed flags: a string, or the boolean true.   *)
(***************************************************************************)
StrVal(s) == [isTrue |-> FALSE, s |-> s]
TrueVal == [isTrue |-> TRUE, s |-> << >>]
Truthy(v) == v.isTrue \/ v.s # << >>

\* `${v}` in a template literal
TemplateText(v) == IF v.isTrue THEN <<"true">> ELSE v.s

(***************************************************************************)
(* Constants of the script.                                                *)
(***************************************************************************)
ORG_DEFAULT == <<"yolotechnology">>
KEYCHAIN_SERVICE == <<"GITHUB_PACKAGES_NPM_TOKEN">>
KEYCHAIN_LOADER_SCRIPT ==
    <<"# Load GitHub Packages token from macOS Keychain", LF,
      "export NPM_TOKEN=\"$(", "security find-generic-password",
      " -a \"$USER\" -s ">> \o KEYCHAIN_SERVICE \o <<" -w 2>/dev/null)\"">>

(***************************************************************************)
(* parseArgs(argv), lines 533-554.  The loop over raw[i]; out is a function *)
(* from the keys seen to their values, a later assignment overwriting.     *)
(***************************************************************************)
\* a value cut at its first '='
eqValue_FirstPiece(rest) == IF rest = << >> THEN << >> ELSE rest[1]

\* rest.join('='), line 541
eqValue(rest) == Join(rest, EQ)

SetKey(out, k, v) ==
    [x \in (DOMAIN out) \cup {k} |-> IF x = k THEN v ELSE out[x]]

RECURSIVE ParseFrom(_, _, _)
ParseFrom(raw, i, out) ==
    IF i > Len(raw) THEN out
    ELSE LET a == raw[i] IN
         IF ~StartsWith(a, <<DD>>) THEN ParseFrom(raw, i + 1, out)
         ELSE IF EQ \in Range(a)
         THEN LET parts == Split(Tail(a), EQ)
                  k == parts[1]
                  rest == Tail(parts)
              IN  ParseFrom(raw, i + 1, SetKey(out, k, StrVal(eqValue(rest))))
         ELSE LET k == Tail(a)
                  hasNext == i + 1 <= Len(raw)
              IN  IF hasNext /\ raw[i + 1] # << >> /\ ~StartsWith(raw[i + 1], <<DD>>)
                  THEN ParseFrom(raw, i + 2, SetKey(out, k, StrVal(raw[i + 1])))
                  ELSE ParseFrom(raw, i + 1, SetKey(out, k, TrueVal))

parseArgs(raw) == ParseFrom(raw, 1, << >>)

\* parsed[k] || dflt
GetOr(p, k, dflt) == IF k \in DOMAIN p /\ Truthy(p[k]) THEN p[k] ELSE dflt

orgOf(p) == GetOr(p, <<"org">>, StrVal(ORG_DEFAULT))
dryRunOf(p) == <<"dry-run">> \in DOMAIN p /\ Truthy(p[<<"dry-run">>])
tokenArgOf(p) == GetOr(p, <<"token">>, StrVal(EmptyStr))
helpOf(p) ==
    \/ <<"help">> \in DOMAIN p /\ Truthy(p[<<"help">>])
    \/ <<"h">> \in DOMAIN p /\ Truthy(p[<<"h">>])

(***************************************************************************)
(* The Keychain entry and the files.                                       *)
(***************************************************************************)
NoEntry == [exists |-> FALSE, s |-> << >>]
Entry(s) == [exists |-> TRUE, s |-> s]

Absent == [exists |-> FALSE, content |-> << >>]
File(content) == [exists |-> TRUE, content |-> content]

Zshrc == "~/.zshrc"
Bashrc == "~/.bashrc"
BashProfile == "~/.bash_profile"
Npmrc == "~/.npmrc"
NoFile == ""
Paths == {Zshrc, Bashrc, BashProfile, Npmrc}

\* path.basename(process.env.SHELL || ''): SHELL as its path segments
Basename(p) == IF p = << >> THEN "" ELSE p[Len(p)]

\* a selection that takes ~/.bashrc for bash whether it exists or not
detectRcFile_BashrcAlways(sh, files) ==
    LET currentShell == Basename(sh) IN
    IF currentShell = "zsh" THEN Zshrc
    ELSE IF currentShell = "bash" THEN Bashrc
    ELSE NoFile

\* detectRcFile(), lines 612-623
detectRcFile(sh, files) ==
    LET currentShell == Basename(sh) IN
    IF currentShell = "zsh" THEN Zshrc
    ELSE IF currentShell = "bash"
    THEN IF files[Bashrc].exists THEN Bashrc ELSE BashProfile
    ELSE NoFile

\* a guard that looks for the service name alone
hasKeychainLoader_ServiceOnly(rcContent) == Includes(rcContent, KEYCHAIN_SERVICE)

\* hasKeychainLoader(rcContent), lines 657-660
hasKeychainLoader(rcContent) ==
    /\ Includes(rcContent, KEYCHAIN_SERVICE)
    /\ Includes(rcContent, <<"security find-generic-password">>)

\* `\n${KEYCHAIN_LOADER_SCRIPT}\n`, line 689
Loader == <<LF>> \o KEYCHAIN_LOADER_SCRIPT \o <<LF>>

(***************************************************************************)
(* setupRcFile(), lines 663-706, as the result of the whole function:      *)
(* the files and home directory it leaves, whether it ended in fatal(),    *)
(* its writes in order and its console messages.  fault names the file     *)
(* system call that throws, if that call is made.                          *)
(***************************************************************************)
\* a write that replaces the content of the file
appendFileSync_Truncating(content, data) == data

\* fs.appendFileSync(rcFile, loader, 'utf8'), line 694
appendFileSync(content, data) == content \o data

RcFaults == {"none", "mkdir", "create", "read", "append"}

RcResult(files, home, fatal, writes, msgs) ==
    [fs |-> files, home |-> home, fatal |-> fatal, writes |-> writes, msgs |-> msgs]

setupRcFile(sh, files, home, dry, fault) ==
    LET rcFile == detectRcFile(sh, files) IN
    IF rcFile = NoFile
    THEN RcResult(files, home, TRUE, << >>, <<"warn: unsupported shell", "fatal: unsupported shell">>)
    ELSE
    LET missing == ~files[rcFile].exists
        creating == missing /\ ~dry
        mkdirs == creating /\ ~home
        home1 == IF mkdirs /\ fault # "mkdir" THEN TRUE ELSE home
        created == creating /\ ~(mkdirs /\ fault = "mkdir") /\ fault # "create"
        fs1 == IF created THEN [files EXCEPT ![rcFile] = File(<< >>)] ELSE files
        w1 == (IF mkdirs /\ fault # "mkdir" THEN <<"mkdir">> ELSE << >>)
              \o (IF created THEN <<"create:rc">> ELSE << >>)
        m1 == IF missing
              THEN (IF dry THEN <<"dry-run: would create rc file">>
                    ELSE IF created THEN <<"created rc file">> ELSE << >>)
              ELSE << >>
    IN
    IF mkdirs /\ fault = "mkdir"
    THEN RcResult(files, home, TRUE, << >>, <<"fatal: cannot create directory">>)
    ELSE IF creating /\ fault = "create"
    THEN RcResult(files, home1, TRUE, w1, <<"fatal: rc write failed">>)
    ELSE IF fs1[rcFile].exists /\ fault = "read"
    THEN RcResult(fs1, home1, TRUE, w1, m1 \o <<"fatal: rc write failed">>)
    ELSE
    LET rcContent == IF fs1[rcFile].exists THEN fs1[rcFile].content ELSE << >> IN
    IF hasKeychainLoader(rcContent)
    THEN RcResult(fs1, home1, FALSE, w1, m1 \o <<"rc already configured, skipped">>)
    ELSE IF dry
    THEN RcResult(fs1, home1, FALSE, w1, m1 \o <<"dry-run: would append loader">>)
    ELSE IF fault = "append"
    THEN RcResult(fs1, home1, TRUE, w1, m1 \o <<"fatal: rc write failed">>)
    ELSE RcResult([fs1 EXCEPT ![rcFile] = File(appendFileSync(rcContent, Loader))], home1, FALSE,
                  Append(w1, "append:rc"), m1 \o <<"loader appended">>)

(***************************************************************************)
(* setupNpmrc(), lines 709-779.                                            *)
(***************************************************************************)
RegistrySuffix == ":registry=https://npm.pkg.github.com"
AuthTokenPrefix == "//npm.pkg.github.com/:_authToken="
\* an auth-token line that carries a token itself
EnvRef_Literal == "abc"

EnvRef == "${NPM_TOKEN}"

\* a registry line that always names the default organisation
registryLine_DefaultOrg(o) == <<"@">> \o ORG_DEFAULT \o <<RegistrySuffix>>

registryLine(o) == <<"@">> \o TemplateText(o) \o <<RegistrySuffix>>
authTokenLine == <<AuthTokenPrefix, EnvRef>>
npmrcLines(o) == <<registryLine(o), authTokenLine>>
npmrcContent(o) == Join(npmrcLines(o), LF) \o <<LF>>

NotBlank(line) == Trim(line) # << >>
\* a filter that forgets the registry lines (lines 747-749)
NotDirective_AuthOnly(line) == ~StartsWith(line, <<AuthTokenPrefix>>)

\* the filter of lines 745-758
NotDirective(line) ==
    /\ ~EndsWith(line, <<RegistrySuffix>>)
    /\ ~StartsWith(line, <<AuthTokenPrefix>>)

existingLinesOf(existingContent) == SelectSeq(Split(existingContent, LF), NotBlank)
filteredLinesOf(existingLines) == SelectSeq(existingLines, NotDirective)

\* a skip test satisfied by the registry line of any organisation
alreadyConfigured_AnyRegistry(existingLines, o) ==
    /\ \E i \in 1..Len(existingLines) : EndsWith(existingLines[i], <<RegistrySuffix>>)
    /\ authTokenLine \in Range(existingLines)

\* lines 761-768: both desired lines already present verbatim
alreadyConfigured(existingLines, o) ==
    /\ registryLine(o) \in Range(existingLines)
    /\ authTokenLine \in Range(existingLines)

\* lines 771-772
updatedContentOf(existingLines, o) ==
    Join(filteredLinesOf(existingLines) \o npmrcLines(o), LF) \o <<LF>>

NpmrcFaults == {"none", "access", "read", "write"}

\* lines 725-778: the writing part
writeNpmrc(files, home, o, fault) ==
    IF ~home \/ fault = "access"
    THEN RcResult(files, home, TRUE, << >>, <<"fatal: npmrc failed">>)
    ELSE IF ~files[Npmrc].exists
    THEN IF fault = "write"
         THEN RcResult(files, home, TRUE, << >>, <<"fatal: npmrc failed">>)
         ELSE RcResult([files EXCEPT ![Npmrc] = File(npmrcContent(o))], home, FALSE,
                       <<"write:npmrc">>, <<"npmrc created">>)
    ELSE IF fault = "read"
    THEN RcResult(files, home, TRUE, << >>, <<"fatal: npmrc failed">>)
    ELSE
    LET existingLines == existingLinesOf(files[Npmrc].content) IN
    IF alreadyConfigured(existingLines, o)
    THEN RcResult(files, home, FALSE, << >>, <<"npmrc already configured, skipped">>)
    ELSE IF fault = "write"
    THEN RcResult(files, home, TRUE, << >>, <<"fatal: npmrc failed">>)
    ELSE RcResult([files EXCEPT ![Npmrc] = File(updatedContentOf(existingLines, o))],
                  home, FALSE, <<"write:npmrc">>, <<"npmrc updated">>)

\* a setupNpmrc whose dry-run branch (lines 717-723) is missing
setupNpmrc_NoDryRunBranch(files, home, o, dry, fault) == writeNpmrc(files, home, o, fault)

setupNpmrc(files, home, o, dry, fault) ==
    IF dry
    THEN RcResult(files, home, FALSE, << >>,
                  <<"dry-run: would write ~/.npmrc", "---">> \o npmrcContent(o) \o <<"---">>)
    ELSE writeNpmrc(files, home, o, fault)

(***************************************************************************)
(* The inputs the runs are checked on.                                     *)
(***************************************************************************)
\* Command-line arguments, as lexemes.
ArgTokens ==
    { <<DD, "dry-run">>, <<DD, "dry-run", EQ>>,
      <<DD, "help">>, <<"-", "h">>,
      <<DD, "token">>, <<DD, "token", EQ>>, <<DD, "token", EQ, "abc">>,
      <<DD, "token", EQ, "ghp_", UserRef>>, <<DD, "token", EQ, UnsetRef>>,
      <<"abc">>, << >>, <<SP>>,
      <<DD, "org">>, <<DD, "org", EQ, "acme">> }

ArgVectors == SeqsUpTo(ArgTokens, MaxArgs)

\* The vectors of repeated runs.
RunVectors ==
    { << >>,
      << <<DD, "token", EQ, "abc">> >>,
      << <<DD, "token", EQ, "abc">>, <<DD, "org", EQ, "acme">> >>,
      << <<DD, "org">>, <<"acme">>, <<DD, "token">>, <<"abc">> >>,
      << <<DD, "token", EQ, "abc">>, <<DD, "dry-run">> >>,
      << <<DD, "dry-run">> >> }

\* Environments: os.platform(), SHELL as path segments, NPM_TOKEN.
EnvOf(p, sh, t) == [platform |-> p, shell |-> sh, npmToken |-> t]
Envs ==
    { EnvOf("darwin", <<"bin", "zsh">>, << >>),
      EnvOf("darwin", <<"bin", "zsh">>, <<"envtok">>),
      EnvOf("darwin", <<"bin", "bash">>, << >>),
      EnvOf("darwin", <<"usr", "bin", "fish">>, << >>),
      EnvOf("darwin", << >>, <<"envtok">>),
      EnvOf("linux", <<"bin", "bash">>, << >>) }

\* Keystroke chunks delivered to readHidden's onData.
Keys == { <<"g">>, <<SP>>, <<CR>>, <<LF>>, <<CtrlC>> }

\* Keys that close the confirmation prompt without an answer.
CtrlD == "^D"
CloseKeys == {CtrlC, CtrlD}

\* Answers typed at the confirmation prompt.
Answers ==
    { << >>, <<"y">>, <<SP, "Y", "E", "S", SP>>, <<"n">>, <<"N", "o">>, <<"y", "y">> }

\* `npm whoami`: exit status and standard output
WhoamiResult(st, text) == [status |-> st, stdout |-> text]
WhoamiResults ==
    { WhoamiResult(0, <<"octocat", LF>>), WhoamiResult(0, <<LF>>), WhoamiResult(0, << >>),
      WhoamiResult(1, << >>), WhoamiResult(1, <<"octocat", LF>>) }

\* Pre-existing text.
OtherRc == <<"export PATH=/usr/local/bin:$PATH", LF>>
MarkerOnlyRc ==
    <<"# see ", "security find-generic-password", " -s ">> \o KEYCHAIN_SERVICE \o <<LF>>
UnrelatedA == <<"registry=https://registry.npmjs.org/">>
UnrelatedB == <<"save-exact=true">>
StaleRegistry == <<"@", "oldorg", RegistrySuffix>>
LiteralAuth == <<AuthTokenPrefix, "ghp_literal">>
IndentedAuth == <<SP, SP, AuthTokenPrefix, "$GITHUB_TOKEN">>

TextOf(lines) == Join(lines, LF) \o <<LF>>

HomeOf(z, b, p, n) ==
    [x \in Paths |-> CASE x = Zshrc -> z [] x = Bashrc -> b
                       [] x = BashProfile -> p [] OTHER -> n]

NoFiles == HomeOf(Absent, Absent, Absent, Absent)

\* The machines a run can start on: the home directory, its files and the
\* Keychain entry.
MachineOf(home, files, entry) == [home |-> home, fs |-> files, vault |-> entry]
Machines ==
    { MachineOf(FALSE, NoFiles, NoEntry),
      MachineOf(TRUE, NoFiles, NoEntry),
      MachineOf(TRUE, NoFiles, Entry(<<"oldtoken">>)),
      MachineOf(TRUE,
                HomeOf(File(OtherRc), Absent, Absent,
                       File(TextOf(<<UnrelatedA, UnrelatedB>>))),
                NoEntry),
      MachineOf(TRUE,
                HomeOf(File(OtherRc \o Loader), Absent, File(OtherRc),
                       File(npmrcContent(StrVal(ORG_DEFAULT)))),
                Entry(<<"oldtoken">>)),
      MachineOf(TRUE,
                HomeOf(Absent, File(OtherRc), Absent,
                       File(TextOf(<<UnrelatedA, StaleRegistry, LiteralAuth, << >>,
                                     UnrelatedB>>))),
                Entry(<<"oldtoken">>)),
      MachineOf(TRUE,
                HomeOf(File(MarkerOnlyRc), Absent, File(OtherRc \o Loader),
                       File(TextOf(<<registryLine(StrVal(ORG_DEFAULT)), authTokenLine,
                                     LiteralAuth>>))),
                Entry(<<"oldtoken">>)),
      MachineOf(TRUE,
                HomeOf(File(OtherRc \o Loader \o Loader), File(<< >>), Absent,
                       File(TextOf(<<IndentedAuth, UnrelatedA>>))),
                NoEntry) }

DRY_RUN_TOKEN == <<"DRY_RUN_TOKEN">>

(***************************************************************************)
(* The process.                                                            *)
(***************************************************************************)
envVars == <<platform, shell, envToken>>
cfgVars == <<parsed, org, dryRun, tokenArg>>
inputVars == <<buf, rawMode, read>>
histVars == <<answer, history>>
storeVars == <<vault, homeDir, fs>>
snapVars == <<vault0, fs0, home0, run>>
parseVars == <<argv2, parsed2, pair>>

Exit(code, reason) ==
    /\ pc' = "exited"
    /\ exitCode' = code
    /\ exitReason' = reason

Running ==
    /\ exitCode' = exitCode
    /\ exitReason' = exitReason

NoConfig == StrVal(EmptyStr)
NoAnswer == <<"(no answer)">>
NoPair == [k |-> << >>, v |-> << >>]
NotReturned == <<"(not returned)">>
NoRead == [received |-> << >>, returned |-> NotReturned, listening |-> FALSE]
NoVerify == [readOk |-> FALSE, secret |-> << >>, ran |-> FALSE, status |-> 0, stdout |-> << >>]

\* The state when the command is started with one of the vectors.
Start(vectors) ==
    /\ argv \in vectors
    /\ \E e \in Envs :
          /\ platform = e.platform
          /\ shell = e.shell
          /\ envToken = e.npmToken
    /\ pc = "start"
    /\ parsed = << >>
    /\ org = NoConfig
    /\ dryRun = FALSE
    /\ tokenArg = NoConfig
    /\ buf = << >>
    /\ rawMode = FALSE
    /\ read = NoRead
    /\ token = << >>
    /\ \E m \in Machines :
          /\ vault = m.vault
          /\ homeDir = m.home
          /\ fs = m.fs
    /\ exitCode = 0
    /\ exitReason = ""
    /\ trace = << >>
    /\ vault0 = vault
    /\ verify = NoVerify
    /\ fs0 = fs
    /\ home0 = homeDir
    /\ run = 1
    /\ console = << >>
    /\ answer = NoAnswer
    /\ history = << >>
    /\ argv2 = << >>
    /\ parsed2 = << >>
    /\ pair = NoPair

\* lines 519-530: the platform check; then the signal handlers are installed
OsCheck ==
    /\ pc = "start"
    /\ trace' = Append(trace, "osCheck")
    /\ IF platform # "darwin"
       THEN /\ Exit(1, "unsupported-os")
            /\ console' = Append(console, "fatal: macOS only")
       ELSE /\ pc' = "parse"
            /\ Running
            /\ console' = console
    /\ UNCHANGED <<argv, envVars, cfgVars, inputVars, token, storeVars, snapVars, verify, parseVars, histVars>>

\* lines 557-565: parseArgs, the derived settings, the help exit
ParseArgs ==
    /\ pc = "parse"
    /\ LET p == parseArgs(argv) IN
       /\ parsed' = p
       /\ org' = orgOf(p)
       /\ dryRun' = dryRunOf(p)
       /\ tokenArg' = tokenArgOf(p)
       /\ trace' = Append(trace, "parseArgs")
       /\ IF helpOf(p)
          THEN /\ Exit(0, "help")
               /\ console' = Append(console, "usage")
          ELSE /\ pc' = "getToken"
               /\ Running
               /\ console' = console
    /\ UNCHANGED <<argv, envVars, inputVars, token, storeVars, snapVars, verify, parseVars, histVars>>

\* a main that goes from getToken straight to the writing stages
AfterToken_NoConfirm(t, tr, msgs) ==
    /\ token' = t
    /\ Running
    /\ pc' = "save"
    /\ trace' = tr
    /\ console' = msgs

\* main after getToken returned a token: the confirmation prompt is asked
\* unless dry-run (lines 852-861)
AfterToken(t, tr, msgs) ==
    /\ token' = t
    /\ Running
    /\ IF dryRun
       THEN /\ pc' = "save"
            /\ trace' = tr
            /\ console' = msgs
       ELSE /\ pc' = "confirm"
            /\ trace' = Append(tr, "prompt:confirm")
            /\ console' = msgs

\* getToken(), lines 626-639, up to its return or to readHidden's wait.
\* tty: process.stdin is a terminal (setRawMode exists only then).
GetToken ==
    /\ pc = "getToken"
    /\ LET tr == Append(trace, "getToken") IN
       \E tty \in BOOLEAN :
       IF Truthy(tokenArg)
       THEN IF tokenArg.isTrue
            THEN \* true.trim is not a function: main's promise rejects
                 /\ Exit(1, "TypeError")
                 /\ trace' = tr
                 /\ UNCHANGED <<token, console, inputVars>>
            ELSE IF Trim(tokenArg.s) = << >>
            THEN /\ Exit(1, "empty-token")
                 /\ trace' = tr
                 /\ console' = Append(console, "fatal: empty token")
                 /\ UNCHANGED <<token, inputVars>>
            ELSE /\ AfterToken(Trim(tokenArg.s), tr, console)
                 /\ UNCHANGED inputVars
       ELSE IF dryRun
       THEN /\ AfterToken(DRY_RUN_TOKEN, tr, Append(console, "dry-run: placeholder token"))
            /\ UNCHANGED inputVars
       ELSE IF ~tty
       THEN \* stdin.setRawMode is not a function: main's promise rejects
            /\ Exit(1, "TypeError")
            /\ trace' = Append(tr, "prompt:masked")
            /\ console' = Append(console, "enter token:")
            /\ UNCHANGED <<token, inputVars>>
       ELSE /\ pc' = "readHidden"
            /\ Running
            /\ rawMode' = TRUE
            /\ buf' = << >>
            /\ read' = [NoRead EXCEPT !.listening = TRUE]
            /\ trace' = Append(tr, "prompt:masked")
            /\ console' = Append(console, "enter token:")
            /\ UNCHANGED token
    /\ UNCHANGED <<argv, envVars, cfgVars, storeVars, snapVars, verify, parseVars, histVars>>

\* readHidden's onData(ch), lines 579-593, and on Enter the rest of getToken
OnData(ch) ==
    /\ pc = "readHidden"
    /\ IF ch = <<CR>> \/ ch = <<LF>>
       THEN /\ rawMode' = FALSE
            /\ buf' = << >>
            /\ read' = [received |-> read.received \o ch, returned |-> buf,
                        listening |-> FALSE]
            /\ IF Trim(buf) = << >>
               THEN /\ Exit(1, "empty-token")
                    /\ console' = Append(console, "fatal: empty token")
                    /\ UNCHANGED <<token, trace>>
               ELSE AfterToken(Trim(buf), trace, console)
       ELSE IF ch = <<CtrlC>>
       THEN /\ Exit(1, "input-interrupted")
            /\ console' = Append(console, "fatal: input interrupted")
            /\ read' = [read EXCEPT !.received = read.received \o ch]
            /\ UNCHANGED <<token, trace, buf, rawMode>>
       ELSE /\ Len(buf \o ch) <= MaxBuf
            /\ buf' = buf \o ch
            /\ read' = [read EXCEPT !.received = read.received \o ch]
            /\ UNCHANGED <<pc, exitCode, exitReason, token, trace, console, rawMode>>
    /\ UNCHANGED <<argv, envVars, cfgVars, storeVars, snapVars, verify, parseVars, histVars>>

\* a confirmPrompt whose default (the empty line) is Yes
accepted_DefaultYes(line) ==
    LET normalized == ToLowerCase(Trim(line))
    IN  normalized = << >> \/ normalized = <<"y">> \/ normalized = <<"y", "e", "s">>

\* confirmPrompt's answer, lines 603-607
accepted(line) ==
    LET normalized == ToLowerCase(Trim(line))
    IN  normalized = <<"y">> \/ normalized = <<"y", "e", "s">>

\* the rl.question callback and main's lines 857-860
ConfirmAnswer(line) ==
    /\ pc = "confirm"
    /\ answer' = line
    /\ history' = history
    /\ IF accepted(line)
       THEN /\ pc' = "save"
            /\ Running
            /\ trace' = Append(trace, "accepted")
            /\ console' = console
       ELSE /\ Exit(0, "declined")
            /\ trace' = Append(trace, "declined")
            /\ console' = Append(console, "cancelled")
    /\ UNCHANGED <<argv, envVars, cfgVars, inputVars, token, storeVars, snapVars, verify, parseVars>>

\* The readline interface of confirmPrompt (lines 602-608) closes without an
\* answer: Ctrl-C or Ctrl-D typed at the prompt, or the end of a piped stdin.
\* rl has no 'SIGINT' and no 'close' listener, the question's callback is never
\* called, main never resumes and the process ends when the event loop drains.
ConfirmClose(key) ==
    /\ pc = "confirm"
    /\ Exit(0, "prompt-closed")
    /\ trace' = Append(trace, IF key = CtrlC THEN "prompt-closed:ctrl-c"
                              ELSE "prompt-closed:eof")
    /\ UNCHANGED <<argv, envVars, cfgVars, inputVars, token, storeVars, snapVars, verify,
                   parseVars, histVars, console>>

\* lines 525-530: SIGINT or SIGTERM delivered while the process waits for input
Signal ==
    /\ pc \in {"readHidden", "confirm"}
    /\ Exit(1, "signal")
    /\ trace' = Append(trace, "signal")
    /\ console' = Append(console, "interrupted")
    /\ UNCHANGED <<argv, envVars, cfgVars, inputVars, token, storeVars, snapVars, verify, parseVars, histVars>>

\* The command line of line 649 is run by /bin/sh with the token between
\* double quotes. There the shell expands a variable reference (to nothing
\* when the variable is unset), and a double
\* quote inside the token ends the quoted word: an odd number of them leaves
\* the command unterminated and the shell refuses to run it.
ShellSyntaxOk(s) == Cardinality({i \in 1..Len(s) : s[i] = Quote}) % 2 = 0

RECURSIVE ShellDoubleQuoted(_)
ShellDoubleQuoted(s) ==
    IF s = << >> THEN << >>
    ELSE LET rest == ShellDoubleQuoted(Tail(s)) IN
         CASE Head(s) = UserRef -> <<UserName>> \o rest
           [] Head(s) = UnsetRef -> rest
           [] Head(s) = Quote -> rest
           [] OTHER -> <<Head(s)>> \o rest

\* saveTokenToKeychain(token), lines 642-654; ok: `security add-generic-password` succeeds
SaveTokenToKeychain ==
    /\ pc = "save"
    /\ LET tr == Append(trace, "saveTokenToKeychain") IN
       IF dryRun
       THEN /\ pc' = "rc"
            /\ Running
            /\ trace' = tr
            /\ console' = Append(console, "dry-run: would save token to Keychain")
            /\ vault' = vault
       ELSE \E ok \in BOOLEAN :
            IF ok /\ ShellSyntaxOk(token)
            THEN /\ pc' = "rc"
                 /\ Running
                 /\ vault' = Entry(ShellDoubleQuoted(token))
                 /\ trace' = Append(tr, "write:vault")
                 /\ console' = Append(console, "token saved to Keychain")
            ELSE /\ Exit(1, "keychain-write-failed")
                 /\ vault' = vault
                 /\ trace' = tr
                 /\ console' = Append(console, "fatal: Keychain write failed")
    /\ UNCHANGED <<argv, envVars, cfgVars, inputVars, token, homeDir, fs, snapVars, verify, parseVars, histVars>>

\* a file stage after whose fatal error main goes on to the next stage
FileStage_ContinueOnFatal(name, r, next, reason) ==
    /\ fs' = r.fs
    /\ homeDir' = r.home
    /\ trace' = Append(trace, name) \o r.writes
    /\ console' = console \o r.msgs
    /\ pc' = next
    /\ Running
    /\ UNCHANGED <<argv, envVars, cfgVars, inputVars, token, vault, snapVars, verify, parseVars, histVars>>

\* a file stage of main: its result applied to the process
FileStage(name, r, next, reason) ==
    /\ fs' = r.fs
    /\ homeDir' = r.home
    /\ trace' = Append(trace, name) \o r.writes
    /\ console' = console \o r.msgs
    /\ IF r.fatal
       THEN Exit(1, reason)
       ELSE /\ pc' = next
            /\ Running
    /\ UNCHANGED <<argv, envVars, cfgVars, inputVars, token, vault, snapVars, verify, parseVars, histVars>>

SetupRcFile ==
    /\ pc = "rc"
    /\ \E fault \in RcFaults :
          FileStage("setupRcFile", setupRcFile(shell, fs, homeDir, dryRun, fault), "npmrc",
                    IF detectRcFile(shell, fs) = NoFile THEN "unknown-shell"
                    ELSE "rc-write-failed")

SetupNpmrc ==
    /\ pc = "npmrc"
    /\ \E fault \in NpmrcFaults :
          FileStage("setupNpmrc", setupNpmrc(fs, homeDir, org, dryRun, fault), "check",
                    "npmrc-write-failed")

\* checkNpmToken(), lines 782-789: only prints
CheckNpmToken ==
    /\ pc = "check"
    /\ pc' = "validate"
    /\ Running
    /\ trace' = Append(trace, "checkNpmToken")
    /\ console' = Append(console, IF envToken # << >> THEN "NPM_TOKEN loaded"
                                  ELSE "NPM_TOKEN not loaded")
    /\ UNCHANGED <<argv, envVars, cfgVars, inputVars, token, storeVars, snapVars, verify, parseVars, histVars>>

\* getKeychainToken(), lines 792-802; readOk: `security find-generic-password` succeeds
getKeychainToken(v, env, readOk) ==
    IF v.exists /\ readOk THEN Trim(v.s) ELSE env

\* a verifier that takes a zero exit status alone for success
confirmed_StatusOnly(r) == r.status = 0

\* validateNpm, lines 821-846: execSync returns (status 0) and the trimmed
\* output is not empty
confirmed(r) == r.status = 0 /\ Trim(r.stdout) # << >>

\* validateNpm(token), lines 805-847, and the end of main
ValidateNpm ==
    /\ pc = "validate"
    /\ LET tr == Append(trace, "validateNpm") IN
       IF dryRun
       THEN /\ Exit(0, "dry-run-complete")
            /\ trace' = tr
            /\ console' = Append(console, "dry-run: would run npm whoami")
            /\ verify' = verify
       ELSE \E readOk \in BOOLEAN, r \in WhoamiResults :
            LET keychainToken == getKeychainToken(vault, envToken, readOk) IN
            IF keychainToken = << >>
            THEN /\ Exit(1, "no-secret")
                 /\ trace' = tr
                 /\ console' = Append(console, "error: no NPM_TOKEN")
                 /\ verify' = [NoVerify EXCEPT !.readOk = readOk]
            ELSE /\ trace' = Append(tr, "exec:whoami")
                 /\ verify' = [readOk |-> readOk, secret |-> keychainToken, ran |-> TRUE,
                               status |-> r.status, stdout |-> r.stdout]
                 /\ IF confirmed(r)
                    THEN /\ Exit(0, "verified")
                         /\ console' = Append(console, "verified")
                    ELSE /\ Exit(1, "verification-failed")
                         /\ console' = Append(console, "error: verification failed")
    /\ UNCHANGED <<argv, envVars, cfgVars, inputVars, token, storeVars, snapVars, parseVars, histVars>>

\* the run was not a dry run and went through every writing stage of main
FullFlow == ~dryRun /\ "checkNpmToken" \in Range(trace)

\* the command is run again, with any of the vectors of repeated runs
NewRun ==
    /\ pc = "exited"
    /\ run < MaxRuns
    /\ argv' \in RunVectors
    /\ run' = run + 1
    /\ pc' = "start"
    /\ parsed' = << >>
    /\ org' = NoConfig
    /\ dryRun' = FALSE
    /\ tokenArg' = NoConfig
    /\ buf' = << >>
    /\ rawMode' = FALSE
    /\ read' = NoRead
    /\ token' = << >>
    /\ exitCode' = 0
    /\ exitReason' = ""
    /\ trace' = << >>
    /\ console' = << >>
    /\ answer' = NoAnswer
    /\ history' = Append(history, [org |-> org, full |-> FullFlow])
    /\ vault0' = vault
    /\ verify' = NoVerify
    /\ fs0' = fs
    /\ home0' = homeDir
    /\ UNCHANGED <<envVars, storeVars, parseVars>>

Init == Start(ArgVectors)

Step ==
    \/ OsCheck
    \/ ParseArgs
    \/ GetToken
    \/ \E ch \in Keys : OnData(ch)
    \/ \E line \in Answers : ConfirmAnswer(line)
    \/ \E key \in CloseKeys : ConfirmClose(key)
    \/ Signal
    \/ SaveTokenToKeychain
    \/ SetupRcFile
    \/ SetupNpmrc
    \/ CheckNpmToken
    \/ ValidateNpm

Next == Step

\* One run of the command, on every argument vector.
Spec == Init /\ [][Next]_vars

(***************************************************************************)
(* Runs in succession on the same machine.                                 *)
(***************************************************************************)
InitRuns == Start(RunVectors)

NextRuns ==
    \/ Step
    \/ NewRun

SpecRuns == InitRuns /\ [][NextRuns]_vars

(***************************************************************************)
(* setupNpmrc on its own: main has reached it, with any organisation, and  *)
(* ~/.npmrc is absent or holds up to MaxLines of the lines below.          *)
(***************************************************************************)
NpmrcLineSet ==
    { UnrelatedA, UnrelatedB, StaleRegistry, LiteralAuth, IndentedAuth,
      << >>, <<SP>>,
      registryLine(StrVal(ORG_DEFAULT)), registryLine(StrVal(<<"acme">>)),
      authTokenLine }

NpmrcTexts == {TextOf(lines) : lines \in SeqsUpTo(NpmrcLineSet, MaxLines) \ {<< >>}}

NpmrcFiles == {Absent, File(<< >>)} \cup {File(t) : t \in NpmrcTexts}

Orgs == { StrVal(ORG_DEFAULT), StrVal(<<"acme">>), TrueVal }

InitNpmrc ==
    /\ argv = << >>
    /\ platform = "darwin"
    /\ shell = <<"bin", "zsh">>
    /\ envToken = << >>
    /\ pc = "npmrc"
    /\ parsed = << >>
    /\ org \in Orgs
    /\ dryRun \in BOOLEAN
    /\ tokenArg = NoConfig
    /\ buf = << >>
    /\ rawMode = FALSE
    /\ read = NoRead
    /\ token = <<"abc">>
    /\ vault = Entry(<<"abc">>)
    /\ homeDir = TRUE
    /\ \E f \in NpmrcFiles : fs = HomeOf(File(OtherRc \o Loader), Absent, Absent, f)
    /\ exitCode = 0
    /\ exitReason = ""
    /\ trace = << >>
    /\ vault0 = vault
    /\ verify = NoVerify
    /\ fs0 = fs
    /\ home0 = homeDir
    /\ run = 1
    /\ console = << >>
    /\ answer = <<"y">>
    /\ history = << >>
    /\ argv2 = << >>
    /\ parsed2 = << >>
    /\ pair = NoPair

NextNpmrc == SetupNpmrc

SpecNpmrc == InitNpmrc /\ [][NextNpmrc]_vars

(***************************************************************************)
(* parseArgs on its own: a key and a value, written as one argument        *)
(* --k=v in argv and as two arguments --k v in argv2, between the same     *)
(* arguments before and after.                                             *)
(***************************************************************************)
ParseKeys == { <<"org">>, <<"token">>, <<"dry-run">>, <<"help">>, <<"x">>, << >> }
ParseValues ==
    { <<"abc">>, <<"a", EQ, "b">>, <<EQ>>, <<"-", "h">>, <<SP>>, << >>, <<DD, "x">>, <<DD>> }
Before == { << >>, << <<DD, "org">> >>, << <<"abc">> >>, << <<DD, "token", EQ, "t">> >> }
After == { << >>, << <<DD, "dry-run">> >>, << <<"abc">> >>, << <<DD, "org", EQ, "o">> >> }

InitParse ==
    /\ \E k \in ParseKeys, v \in ParseValues, b \in Before, a \in After :
          /\ pair = [k |-> k, v |-> v]
          /\ argv = b \o << <<DD>> \o k \o <<EQ>> \o v >> \o a
          /\ argv2 = b \o << <<DD>> \o k, v >> \o a
    /\ platform = "darwin"
    /\ shell = <<"bin", "zsh">>
    /\ envToken = << >>
    /\ pc = "parse"
    /\ parsed = << >>
    /\ parsed2 = << >>
    /\ org = NoConfig
    /\ dryRun = FALSE
    /\ tokenArg = NoConfig
    /\ buf = << >>
    /\ rawMode = FALSE
    /\ read = NoRead
    /\ token = << >>
    /\ vault = NoEntry
    /\ homeDir = TRUE
    /\ fs = NoFiles
    /\ exitCode = 0
    /\ exitReason = ""
    /\ trace = << >>
    /\ vault0 = vault
    /\ verify = NoVerify
    /\ fs0 = fs
    /\ home0 = homeDir
    /\ run = 1
    /\ console = << >>
    /\ answer = NoAnswer
    /\ history = << >>

\* lines 557-560 on both vectors
ParseBoth ==
    /\ pc = "parse"
    /\ pc' = "parsed"
    /\ parsed' = parseArgs(argv)
    /\ parsed2' = parseArgs(argv2)
    /\ org' = orgOf(parsed')
    /\ dryRun' = dryRunOf(parsed')
    /\ tokenArg' = tokenArgOf(parsed')
    /\ UNCHANGED <<argv, argv2, pair, envVars, inputVars, token, storeVars, snapVars, verify,
                   histVars, exitCode, exitReason, trace, console>>

NextParse == ParseBoth

SpecParse == InitParse /\ [][NextParse]_vars

(***************************************************************************)
(* setupRcFile on its own: main has reached it, with any SHELL, in dry-run *)
(* or not, and the rc files are absent or hold up to MaxLines of the       *)
(* pieces below; the stage is reached again by the runs that follow.       *)
(***************************************************************************)
ServiceOnly == <<"# token kept under ">> \o KEYCHAIN_SERVICE \o <<LF>>
CommandOnly == <<"security find-generic-password", " -s other -w", LF>>

RcPieces == {OtherRc, ServiceOnly, CommandOnly, Loader}

RECURSIVE Flatten(_)
Flatten(pieces) == IF pieces = << >> THEN << >> ELSE Head(pieces) \o Flatten(Tail(pieces))

RcTexts == {Flatten(pieces) : pieces \in SeqsUpTo(RcPieces, MaxLines)}

RcFiles == {Absent} \cup {File(t) : t \in RcTexts}

Shells == { <<"bin", "zsh">>, <<"bin", "bash">>, <<"usr", "bin", "fish">>, << >> }

\* where the file under test lies, and what lies beside it
RcLayouts(f) ==
    { HomeOf(f, Absent, File(OtherRc), Absent),
      HomeOf(Absent, f, File(OtherRc), Absent),
      HomeOf(File(OtherRc), Absent, f, File(npmrcContent(StrVal(ORG_DEFAULT)))) }

InitRc ==
    /\ argv = << >>
    /\ platform = "darwin"
    /\ shell \in Shells
    /\ envToken = << >>
    /\ pc = "rc"
    /\ parsed = << >>
    /\ org = StrVal(ORG_DEFAULT)
    /\ dryRun \in BOOLEAN
    /\ tokenArg = NoConfig
    /\ buf = << >>
    /\ rawMode = FALSE
    /\ read = NoRead
    /\ token = <<"abc">>
    /\ vault = Entry(<<"abc">>)
    /\ \E f \in RcFiles : fs \in RcLayouts(f)
    /\ homeDir = TRUE
    /\ exitCode = 0
    /\ exitReason = ""
    /\ trace = << >>
    /\ vault0 = vault
    /\ verify = NoVerify
    /\ fs0 = fs
    /\ home0 = homeDir
    /\ run = 1
    /\ console = << >>
    /\ answer = <<"y">>
    /\ history = << >>
    /\ argv2 = << >>
    /\ parsed2 = << >>
    /\ pair = NoPair

\* the next run reaches setupRcFile, on the files the last one left
RcAgain ==
    /\ pc = "npmrc"
    /\ run < MaxRuns
    /\ pc' = "rc"
    /\ run' = run + 1
    /\ fs0' = fs
    /\ home0' = homeDir
    /\ console' = << >>
    /\ UNCHANGED <<argv, envVars, cfgVars, inputVars, token, storeVars, vault0, verify,
                   parseVars, histVars, exitCode, exitReason, trace>>

NextRc ==
    \/ SetupRcFile
    \/ RcAgain

SpecRc == InitRc /\ [][NextRc]_vars

(***************************************************************************)
(* setupNpmrc over runs in succession: the first run finds no ~/.npmrc,    *)
(* and every run comes with an organisation of its own, in dry-run or not. *)
(***************************************************************************)
OrgSequenceValues ==
    Orgs \cup { StrVal(<<"a-b">>), StrVal(<<"acme", SP>>) }

InitOrgs ==
    /\ argv = << >>
    /\ platform = "darwin"
    /\ shell = <<"bin", "zsh">>
    /\ envToken = << >>
    /\ pc = "npmrc"
    /\ parsed = << >>
    /\ org \in OrgSequenceValues
    /\ dryRun \in BOOLEAN
    /\ tokenArg = NoConfig
    /\ buf = << >>
    /\ rawMode = FALSE
    /\ read = NoRead
    /\ token = <<"abc">>
    /\ vault = Entry(<<"abc">>)
    /\ homeDir = TRUE
    /\ fs = HomeOf(File(OtherRc \o Loader), Absent, Absent, Absent)
    /\ exitCode = 0
    /\ exitReason = ""
    /\ trace = << >>
    /\ vault0 = vault
    /\ verify = NoVerify
    /\ fs0 = fs
    /\ home0 = homeDir
    /\ run = 1
    /\ console = << >>
    /\ answer = <<"y">>
    /\ history = << >>
    /\ argv2 = << >>
    /\ parsed2 = << >>
    /\ pair = NoPair

\* the run wrote ~/.npmrc, or found it as it wanted it
NpmrcDone == ~dryRun /\ "setupNpmrc" \in Range(trace) /\ exitReason # "npmrc-write-failed"

\* the next run reaches setupNpmrc, with its own organisation
NpmrcAgain ==
    /\ pc \in {"check", "exited"}
    /\ run < MaxRuns
    /\ pc' = "npmrc"
    /\ run' = run + 1
    /\ org' \in OrgSequenceValues
    /\ dryRun' \in BOOLEAN
    /\ history' = Append(history, [org |-> org, full |-> NpmrcDone])
    /\ exitCode' = 0
    /\ exitReason' = ""
    /\ trace' = << >>
    /\ console' = << >>
    /\ fs0' = fs
    /\ home0' = homeDir
    /\ UNCHANGED <<argv, envVars, parsed, tokenArg, inputVars, token, storeVars, vault0,
                   verify, parseVars, answer>>

NextOrgs ==
    \/ SetupNpmrc
    \/ NpmrcAgain

SpecOrgs == InitOrgs /\ [][NextOrgs]_vars

(***************************************************************************)
(* readHidden on its own: getToken has opened the masked prompt, and the   *)
(* terminal delivers data events of one character or of several (pasted    *)
(* text, or input that arrives faster than it is read).                    *)
(***************************************************************************)
Chunks == Keys \cup { <<"h">>, <<"g", CR>>, <<CR, LF>>, <<"g", CtrlC>>, <<"g", "h">> }

InitRead ==
    /\ argv = << >>
    /\ \E e \in Envs :
          /\ e.platform = "darwin"
          /\ platform = e.platform
          /\ shell = e.shell
          /\ envToken = e.npmToken
    /\ pc = "readHidden"
    /\ parsed = parseArgs(argv)
    /\ org = orgOf(parsed)
    /\ dryRun = dryRunOf(parsed)
    /\ tokenArg = tokenArgOf(parsed)
    /\ buf = << >>
    /\ rawMode = TRUE
    /\ read = [NoRead EXCEPT !.listening = TRUE]
    /\ token = << >>
    /\ \E m \in Machines :
          /\ vault = m.vault
          /\ homeDir = m.home
          /\ fs = m.fs
    /\ exitCode = 0
    /\ exitReason = ""
    /\ trace = <<"osCheck", "parseArgs", "getToken", "prompt:masked">>
    /\ vault0 = vault
    /\ verify = NoVerify
    /\ fs0 = fs
    /\ home0 = homeDir
    /\ run = 1
    /\ console = <<"enter token:">>
    /\ answer = NoAnswer
    /\ history = << >>
    /\ argv2 = << >>
    /\ parsed2 = << >>
    /\ pair = NoPair

NextRead == \E ch \in Chunks : OnData(ch)

SpecRead == InitRead /\ [][NextRead]_vars

(***************************************************************************)
(* Properties.                                                             *)
(***************************************************************************)
WriteEvents == {"write:vault", "mkdir", "create:rc", "append:rc", "write:npmrc"}

\* Keychain entry, home directory and files are as the run found them.
Untouched ==
    /\ vault = vault0
    /\ fs = fs0
    /\ homeDir = home0
    /\ Range(trace) \cap WriteEvents = {}

Happened(e) == e \in Range(trace)

IsDryRunArg(a) == Len(a) >= 2 /\ SubSeq(a, 1, 2) = <<DD, "dry-run">>

\* the last dry-run argument of the vector is not the empty-valued --dry-run=
DryRunRequested(v) ==
    \E i \in 1..Len(v) :
        /\ IsDryRunArg(v[i])
        /\ v[i] # <<DD, "dry-run", EQ>>
        /\ \A j \in (i + 1)..Len(v) : ~IsDryRunArg(v[j])

DryRunQuiet ==
    /\ Untouched
    /\ ~Happened("prompt:confirm")
    /\ ~Happened("exec:whoami")

\* C1, as claimed: whenever the argument vector contains --dry-run, the run
\* leaves Keychain entry, directories and files untouched and neither asks for
\* confirmation nor runs npm whoami.
C1_AnyDryRunArgument ==
    (<<DD, "dry-run">> \in Range(argv)) => DryRunQuiet

\* C1, amended: whenever the last dry-run argument of the vector is not the
\* empty-valued --dry-run= (which switches dry-run off again), the run leaves
\* Keychain entry, directories and files untouched and neither asks for
\* confirmation nor runs npm whoami.
C1_DryRunNoSideEffects ==
    DryRunRequested(argv) => DryRunQuiet

\* a dry run completed on a machine where a real run would create the rc file,
\* save the token and write ~/.npmrc
C1_Witness ==
    /\ pc = "exited"
    /\ exitReason = "dry-run-complete"
    /\ DryRunRequested(argv)
    /\ ~vault.exists
    /\ Basename(shell) = "zsh"
    /\ ~fs[Zshrc].exists
    /\ ~fs[Npmrc].exists

IsYes(line) == ToLowerCase(Trim(line)) \in { <<"y">>, <<"y", "e", "s">> }

\* C2: a run whose confirmation was answered with anything but y / yes (the
\* empty default included) has exited with status 0, and a run in which the
\* confirmation was not accepted leaves Keychain entry and files untouched.
C2_DeclineNoSideEffects ==
    /\ (answer # NoAnswer /\ ~IsYes(answer)) => (pc = "exited" /\ exitCode = 0)
    /\ (answer = NoAnswer \/ ~IsYes(answer)) => Untouched

\* the empty default was given on a machine where a real run has work to do
C2_Witness ==
    /\ answer = << >>
    /\ pc = "exited"
    /\ exitCode = 0
    /\ ~dryRun
    /\ ~fs[Npmrc].exists
    /\ ~vault.exists

\* The lines of a file: the pieces between line feeds, without the empty
\* piece after the final line feed.
LinesOf(content) ==
    LET pieces == Split(content, LF)
    IN  IF pieces[Len(pieces)] = << >> THEN SubSeq(pieces, 1, Len(pieces) - 1) ELSE pieces

Count(lines, P(_)) == Cardinality({i \in 1..Len(lines) : P(lines[i])})

\* @<scope>:registry=https://npm.pkg.github.com, for any scope
IsRegistryDirective(line) ==
    /\ Len(line) >= 2
    /\ line[1] = "@"
    /\ line[Len(line)] = RegistrySuffix
    /\ \A i \in 1..(Len(line) - 1) : line[i] # RegistrySuffix

\* //npm.pkg.github.com/:_authToken=<value>, for any value
IsAuthDirective(line) == Len(line) >= 1 /\ line[1] = AuthTokenPrefix

IsDirective(line) == IsRegistryDirective(line) \/ IsAuthDirective(line)

DesiredRegistry == <<"@">> \o TemplateText(org) \o <<RegistrySuffix>>
DesiredAuth == <<AuthTokenPrefix, EnvRef>>

IsStale(line) == IsDirective(line) /\ line # DesiredRegistry /\ line # DesiredAuth
IsBlank(line) == \A i \in 1..Len(line) : line[i] \in Whitespace
IsUnrelated(line) == ~IsBlank(line) /\ ~IsDirective(Trim(line))

\* the run is past setupNpmrc, which wrote
PassedNpmrc ==
    /\ ~dryRun
    /\ "setupNpmrc" \in Range(trace)
    /\ exitReason # "npmrc-write-failed"

\* ~/.npmrc as the run found it held unrelated lines and stale directive lines
\* only (blank lines apart), at least one of them stale
StaleNpmrcBefore ==
    /\ fs0[Npmrc].exists
    /\ LET before == LinesOf(fs0[Npmrc].content) IN
       /\ \A i \in 1..Len(before) :
             IsBlank(before[i]) \/ IsUnrelated(before[i]) \/ IsStale(before[i])
       /\ \E i \in 1..Len(before) : IsStale(before[i])

IsOrgRegistry(line) == Trim(line) = DesiredRegistry
IsAnyAuth(line) == IsAuthDirective(Trim(line))

\* C5, as claimed: after setupNpmrc of a non-dry-run run, whatever ~/.npmrc
\* held before, the file has exactly one registry line for the org and exactly
\* one auth-token line for npm.pkg.github.com, and that line is the
\* ${NPM_TOKEN} one.
C5_ExactlyOnePair ==
    PassedNpmrc =>
        LET after == LinesOf(fs[Npmrc].content) IN
        /\ Count(after, IsOrgRegistry) = 1
        /\ Count(after, IsAnyAuth) = 1
        /\ \A i \in 1..Len(after) : IsAnyAuth(after[i]) => after[i] = DesiredAuth

HasOnePair(content) ==
    LET lines == LinesOf(content) IN
    /\ Count(lines, IsOrgRegistry) = 1
    /\ Count(lines, IsAnyAuth) = 1

\* occurrences of the loader script in a text
LoaderBlocks(content) ==
    Cardinality({i \in 0..(Len(content) - Len(KEYCHAIN_LOADER_SCRIPT)) :
                    SubSeq(content, i + 1, i + Len(KEYCHAIN_LOADER_SCRIPT))
                        = KEYCHAIN_LOADER_SCRIPT})

\* C3, as claimed: when the full non-dry-run flow has run two or more times in
\* succession with the same org, from any shell profile and ~/.npmrc, the
\* profile holds exactly one loader block and ~/.npmrc exactly one registry
\* line of the org and one auth-token line.
C3_TwoRunsOneBlockOnePair ==
    (/\ run >= 2
     /\ FullFlow
     /\ history[Len(history)].full
     /\ history[Len(history)].org = org)
    => /\ LoaderBlocks(fs[detectRcFile(shell, fs)].content) = 1
       /\ HasOnePair(fs[Npmrc].content)

SameSetting ==
    /\ pair.k \in DOMAIN parsed
    /\ pair.k \in DOMAIN parsed2
    /\ parsed[pair.k] = parsed2[pair.k]
    /\ orgOf(parsed) = orgOf(parsed2)
    /\ tokenArgOf(parsed) = tokenArgOf(parsed2)
    /\ dryRunOf(parsed) = dryRunOf(parsed2)

\* C7, as claimed: for every key and every value, --k=v and --k v give the key
\* the same value, and the same org, token and dry-run settings.
C7_EveryValue ==
    pc = "parsed" => SameSetting

\* C7, amended: for every key and every non-empty value that does not start
\* with "--", --k=v and --k v give the key the same value, and the same org,
\* token and dry-run settings.
C7_SameValueBothForms ==
    (pc = "parsed" /\ pair.v # << >> /\ pair.v[1] # DD) => SameSetting

\* a value with '=' in it came out whole from both forms
C7_Witness ==
    /\ pc = "parsed"
    /\ pair.v = <<"a", EQ, "b">>
    /\ pair.k = <<"token">>
    /\ parsed[pair.k] = StrVal(pair.v)
    /\ parsed2[pair.k] = StrVal(pair.v)

IsTokenArg(a) == Len(a) >= 2 /\ SubSeq(a, 1, 2) = <<DD, "token">>

\* the argument at i gives --token a value: --token=<value>, or --token
\* followed by an argument that is no flag
TokenValueAt(v, i) ==
    IF Len(v[i]) >= 3 /\ v[i][3] = EQ THEN SubSeq(v[i], 4, Len(v[i]))
    ELSE v[i + 1]

GivesToken(v, i) ==
    /\ i \in 1..Len(v)
    /\ IsTokenArg(v[i])
    /\ \/ Len(v[i]) >= 3 /\ v[i][3] = EQ
       \/ /\ Len(v[i]) = 2
          /\ i + 1 <= Len(v)
          /\ (v[i + 1] = << >> \/ v[i + 1][1] # DD)

\* the vector gives --token exactly once, with an empty or blank value
EmptyTokenFlag(v) ==
    /\ Cardinality({i \in 1..Len(v) : IsTokenArg(v[i])}) = 1
    /\ \E i \in 1..Len(v) : GivesToken(v, i) /\ IsBlank(TokenValueAt(v, i))

AskedHelp(v) == \E i \in 1..Len(v) : v[i] = <<DD, "help">> \/ v[i] = <<"-", "h">>

\* C6, as claimed: a run given an empty or blank --token value (without help,
\* on macOS), dry-run or not, ends with status 1, and nothing is written; and
\* no run gets past getToken with an empty token.
C6_EmptyTokenExitsOne ==
    /\ (EmptyTokenFlag(argv) /\ ~AskedHelp(argv) /\ pc = "exited"
        /\ exitReason # "unsupported-os")
       => (exitCode = 1 /\ Untouched)
    /\ EmptyTokenFlag(argv) => Untouched
    /\ pc \in {"confirm", "save", "rc", "npmrc", "check", "validate"} => Trim(token) # << >>

\* C8, as claimed: a run whose vector contains --help or -h prints the usage
\* and ends with status 0 before any other stage, whatever the other arguments
\* and the platform.
C8_HelpShortCircuits ==
    AskedHelp(argv) =>
        /\ Range(trace) \subseteq {"osCheck", "parseArgs"}
        /\ Untouched
        /\ pc = "exited" => (exitCode = 0 /\ exitReason = "help" /\ "usage" \in Range(console))

\* C9, as claimed: a run ends with status 0 or 1; with 0 only on help, on a
\* completed dry run, on a declined confirmation or on a successful
\* verification; and with 1 whenever its input was interrupted.
C9_ExitCodes ==
    pc = "exited" =>
        /\ exitCode \in {0, 1}
        /\ exitCode = 0 =>
              \/ "usage" \in Range(console)
              \/ dryRun /\ Happened("validateNpm")
              \/ answer # NoAnswer /\ ~IsYes(answer)
              \/ Happened("exec:whoami") /\ "verified" \in Range(console)
        /\ (Happened("signal") \/ Happened("prompt-closed:ctrl-c")
            \/ "fatal: input interrupted" \in Range(console)) => exitCode = 1

\* the last argument that gives --token a value
LastToken(v) ==
    LET i == CHOOSE i \in 1..Len(v) :
                 /\ GivesToken(v, i)
                 /\ \A j \in (i + 1)..Len(v) : ~IsTokenArg(v[j])
    IN  TokenValueAt(v, i)

ExplicitToken(v) ==
    \E i \in 1..Len(v) :
        /\ GivesToken(v, i)
        /\ \A j \in (i + 1)..Len(v) : ~IsTokenArg(v[j])

PastGetToken == pc \in {"confirm", "save", "rc", "npmrc", "check", "validate"}

\* C10, as claimed: a --token value, when given, is the token (trimmed) and
\* nothing is read from the terminal; without one a dry run takes the
\* placeholder and reads nothing; the masked read happens only without a
\* --token value and outside dry-run.
C10_TokenPrecedence ==
    /\ ExplicitToken(argv) =>
          /\ ~Happened("prompt:masked")
          /\ PastGetToken => (token = Trim(LastToken(argv)) /\ token # DRY_RUN_TOKEN)
    /\ (~ExplicitToken(argv) /\ dryRun) =>
          /\ ~Happened("prompt:masked")
          /\ PastGetToken => token = DRY_RUN_TOKEN
    /\ Happened("prompt:masked") => (~ExplicitToken(argv) /\ ~dryRun)

\* C11, as claimed: a non-dry-run run given a non-empty --token value skips
\* the masked prompt and asks the confirmation, and once the Keychain write has
\* happened the entry holds exactly that value, trimmed, whatever it held before.
C11_ExplicitTokenStored ==
    (ExplicitToken(argv) /\ Trim(LastToken(argv)) # << >> /\ ~dryRun /\ PastGetToken) =>
        /\ ~Happened("prompt:masked")
        /\ Happened("prompt:confirm")
        /\ Happened("write:vault") => vault = Entry(Trim(LastToken(argv)))

OrgNames == {<<"acme">>, <<"abc">>}
DryRunArg == <<DD, "dry-run">>

\* the vector is `--org X --dry-run`, in either form and either order
OrgDryRun(v, X) ==
    v \in { << <<DD, "org", EQ>> \o X, DryRunArg >>, << DryRunArg, <<DD, "org", EQ>> \o X >>,
            << <<DD, "org">>, X, DryRunArg >>, << DryRunArg, <<DD, "org">>, X >> }

Printed(text) ==
    \E i \in 1..Len(console) :
        i + Len(text) - 1 <= Len(console) /\ SubSeq(console, i, i + Len(text) - 1) = text

\* what the dry run of `--org X` prints: the intended Keychain write, the
\* outcome for the rc file, and the two lines of ~/.npmrc
DryRunReport(X) ==
    /\ Printed(<<"dry-run: would save token to Keychain">>)
    /\ \/ Printed(<<"dry-run: would append loader">>)
       \/ Printed(<<"rc already configured, skipped">>)
       \/ Printed(<<"dry-run: would create rc file">>)
    /\ Printed(<<"@">> \o X \o <<RegistrySuffix, LF, AuthTokenPrefix, EnvRef, LF>>)

C13_VerifierOutcome ==
    (pc = "exited" /\ ~dryRun /\ verify.ran) =>
        /\ exitCode = 0 <=> (verify.status = 0 /\ ~IsBlank(verify.stdout))
        /\ exitCode = 0 => Printed(<<"verified">>)
        /\ exitCode # 0 => (exitCode = 1 /\ Printed(<<"error: verification failed">>))

C13_Witness ==
    /\ pc = "exited" /\ ~dryRun /\ verify.ran
    /\ verify.status = 0 /\ verify.stdout = <<LF>>
    /\ exitCode = 1

\* the run got an interrupt: a signal while it waited, or Ctrl-C typed at the
\* masked prompt or at the confirmation prompt
Interrupted ==
    \/ Happened("signal")
    \/ Printed(<<"fatal: input interrupted">>)
    \/ Happened("prompt-closed:ctrl-c")

\* C14, as claimed: an interrupted run has ended at once with status 1, and
\* nothing is written after the interrupt.
C14_InterruptExitsOne ==
    Interrupted => (pc = "exited" /\ exitCode = 1 /\ Untouched)

\* the stages of main in their order, with the events of each
StageRank ==
    [e \in {"getToken", "prompt:masked", "prompt:confirm", "accepted", "saveTokenToKeychain",
            "write:vault", "setupRcFile", "mkdir", "create:rc", "append:rc", "setupNpmrc",
            "write:npmrc", "checkNpmToken", "validateNpm", "exec:whoami"} |->
        CASE e \in {"getToken", "prompt:masked"} -> 1
          [] e \in {"prompt:confirm", "accepted"} -> 2
          [] e \in {"saveTokenToKeychain", "write:vault"} -> 3
          [] e \in {"setupRcFile", "mkdir", "create:rc", "append:rc"} -> 4
          [] e \in {"setupNpmrc", "write:npmrc"} -> 5
          [] OTHER -> 6]

StageNames ==
    {"getToken", "prompt:confirm", "saveTokenToKeychain", "setupRcFile", "setupNpmrc",
     "validateNpm"}

FatalMessages ==
    {"fatal: macOS only", "fatal: empty token", "fatal: input interrupted",
     "fatal: Keychain write failed", "fatal: unsupported shell",
     "fatal: cannot create directory", "fatal: rc write failed", "fatal: npmrc failed"}

\* the token holds nothing the shell treats specially
PlainToken(t) == \A i \in 1..Len(t) : t[i] \notin {UserRef, UnsetRef, Quote}

EndsWithLoader(content) ==
    Len(content) >= Len(Loader)
    /\ SubSeq(content, Len(content) - Len(Loader) + 1, Len(content)) = Loader

\* C15: the stages run at most once each and in the fixed order; a fatal
\* message is the last thing the run prints, the run has then ended with status
\* 1 and no later stage has run or written; what the earlier stages wrote is
\* still there.
C15_LinearHaltNoRollback ==
    /\ \A i, j \in 1..Len(trace) :
          (i < j /\ trace[i] \in DOMAIN StageRank /\ trace[j] \in DOMAIN StageRank) =>
              /\ StageRank[trace[i]] <= StageRank[trace[j]]
              /\ trace[i] \in StageNames => trace[i] # trace[j]
    /\ \A i \in 1..Len(console) :
          console[i] \in FatalMessages =>
              (i = Len(console) /\ pc = "exited" /\ exitCode = 1)
    /\ exitReason = "keychain-write-failed" =>
          (vault = vault0 /\ fs = fs0 /\ ~Happened("setupRcFile"))
    /\ exitReason \in {"unknown-shell", "rc-write-failed"} =>
          (fs[Npmrc] = fs0[Npmrc] /\ ~Happened("setupNpmrc") /\ ~Happened("exec:whoami"))
    /\ exitReason = "npmrc-write-failed" =>
          (fs[Npmrc] = fs0[Npmrc] /\ ~Happened("checkNpmToken") /\ ~Happened("exec:whoami"))
    /\ Happened("write:vault") =>
          (vault.exists /\ (PlainToken(token) => vault = Entry(token)))
    /\ Happened("create:rc") => fs[detectRcFile(shell, fs0)].exists
    /\ Happened("append:rc") => EndsWithLoader(fs[detectRcFile(shell, fs0)].content)
    /\ Happened("write:npmrc") => fs[Npmrc].exists

\* the write of ~/.npmrc failed after the token was stored and the loader
\* appended: both are still there
C15_Witness ==
    /\ pc = "exited" /\ exitReason = "npmrc-write-failed"
    /\ Happened("write:vault") /\ vault = Entry(token) /\ vault # vault0
    /\ Happened("append:rc") /\ fs # fs0

\* the rc file setupRcFile selected, its content before the stage and after
RcTarget == detectRcFile(shell, fs0)
RcBefore == fs0[RcTarget].content
RcAfter == fs[RcTarget].content

\* the stage has run to its end, outside dry-run
RcStageDone == pc = "npmrc" /\ ~dryRun /\ RcTarget # NoFile

RcAppended == RcAfter = RcBefore \o Loader

C17_AppendOnly ==
    /\ RcTarget = NoFile => fs = fs0
    /\ RcTarget # NoFile =>
          /\ RcAfter = RcBefore \/ RcAfter = RcBefore \o Loader
          /\ fs0[RcTarget].exists => fs[RcTarget].exists
          /\ \A p \in Paths \ {RcTarget} : fs[p] = fs0[p]
    /\ vault = vault0

\* the loader was appended to a profile that already held other text
C17_Witness ==
    /\ RcStageDone
    /\ Includes(RcBefore, OtherRc)
    /\ RcAfter = RcBefore \o Loader

\* the profile the claim names for the SHELL and the files the run found
ShellName == IF shell = << >> THEN "" ELSE shell[Len(shell)]
ExpectedRc ==
    CASE ShellName = "zsh" -> Zshrc
      [] ShellName = "bash" -> (IF fs0[Bashrc].exists THEN Bashrc ELSE BashProfile)
      [] OTHER -> NoFile

\* C18: only the profile named for the SHELL is ever created or changed, and
\* only outside dry-run; a completed stage outside dry-run leaves that profile
\* existing and holding the loader guard; with any other or no SHELL the stage
\* ends the run with the fatal message and status 1, in dry-run too, and every
\* file, ~/.npmrc included, is as it was.
C18_TargetSelection ==
    /\ \A p \in Paths : fs[p] # fs0[p] => (p = ExpectedRc /\ ~dryRun)
    /\ (pc = "npmrc" /\ ~dryRun /\ ExpectedRc # NoFile) =>
          (fs[ExpectedRc].exists /\ hasKeychainLoader(fs[ExpectedRc].content))
    /\ (Happened("setupRcFile") /\ ExpectedRc = NoFile) =>
          /\ pc = "exited" /\ exitCode = 1
          /\ Printed(<<"fatal: unsupported shell">>)
          /\ fs = fs0
    /\ (Happened("setupRcFile") /\ ExpectedRc # NoFile) =>
          ~Printed(<<"fatal: unsupported shell">>)

\* bash with neither ~/.bashrc nor ~/.bash_profile: ~/.bash_profile is created
C18_Witness ==
    /\ run = 1 /\ pc = "npmrc" /\ ~dryRun
    /\ ShellName = "bash"
    /\ ~fs0[Bashrc].exists /\ ~fs0[BashProfile].exists
    /\ fs[BashProfile].exists /\ ~fs[Bashrc].exists

\* what the Keychain yields to the verifier's read, and what the environment
\* provides
VaultSecret == IF vault.exists /\ verify.readOk THEN Trim(vault.s) ELSE << >>
EnvSecret == envToken

\* C19, as claimed: the verifier runs the identity check with the value read
\* back from the Keychain, or with NPM_TOKEN of the environment when the
\* Keychain yields no secret; it ends the run with status 1 without running the
\* identity check exactly when neither provides a non-empty secret.
C19_SecretSourcing ==
    (pc = "exited" /\ ~dryRun /\ Happened("validateNpm")) =>
        /\ verify.ran =>
              verify.secret = (IF VaultSecret # << >> THEN VaultSecret ELSE EnvSecret)
        /\ (~verify.ran /\ exitCode = 1) <=> (VaultSecret = << >> /\ EnvSecret = << >>)
        /\ verify.ran <=> Happened("exec:whoami")

IsOrgArg(a) == Len(a) >= 2 /\ SubSeq(a, 1, 2) = <<DD, "org">>

\* C20, as claimed: once the configuration is derived, org is a string (the
\* default when the vector has no --org), dry-run a boolean and the token
\* override a string, for every argument vector.
C20_ConfigTyping ==
    Happened("parseArgs") =>
        /\ ~org.isTrue
        /\ ~tokenArg.isTrue
        /\ dryRun \in BOOLEAN
        /\ (\A i \in 1..Len(argv) : ~IsOrgArg(argv[i])) => org = StrVal(ORG_DEFAULT)

IsEnter(c) == c = CR \/ c = LF

\* the characters received before the first Enter
RECURSIVE BeforeEnter(_)
BeforeEnter(chars) ==
    IF chars = << >> \/ IsEnter(Head(chars)) THEN << >>
    ELSE <<Head(chars)>> \o BeforeEnter(Tail(chars))

EnterReceived == \E i \in 1..Len(read.received) : IsEnter(read.received[i])
InterruptedBeforeEnter == CtrlC \in Range(BeforeEnter(read.received))

\* C21, as claimed: whatever data events arrive, once an Enter has been
\* received with no Ctrl-C before it, readHidden has returned exactly the
\* characters received before that Enter, has removed its listener and has left
\* raw mode; it returns nothing before; and once a Ctrl-C has been received
\* before any Enter the process has ended with status 1 and nothing was
\* returned.
C21_AnyDataEvents ==
    /\ (EnterReceived /\ ~InterruptedBeforeEnter) =>
          /\ read.returned = BeforeEnter(read.received)
          /\ ~read.listening /\ ~rawMode
    /\ ~EnterReceived => read.returned = NotReturned
    /\ InterruptedBeforeEnter =>
          (pc = "exited" /\ exitCode = 1 /\ read.returned = NotReturned)

\* The files a run leaves, told from what it found, SHELL, org and which
\* writes it made: nothing here depends on the token.
ExpectedFile(p) ==
    IF p = RcTarget
    THEN IF Happened("append:rc") THEN File(fs0[p].content \o Loader)
         ELSE IF Happened("create:rc") THEN File(<< >>)
         ELSE fs0[p]
    ELSE IF p = Npmrc /\ Happened("write:npmrc")
    THEN IF fs0[p].exists
         THEN File(updatedContentOf(existingLinesOf(fs0[p].content), org))
         ELSE File(npmrcContent(org))
    ELSE fs0[p]

\* a text of the run's secret that a file holds and did not hold before; an
\* org that spells the same text as the secret is in ~/.npmrc as the org
LeaksSecret(secret) ==
    /\ secret # << >>
    /\ ~Includes(TemplateText(org), secret)
    /\ \E p \in Paths :
          Includes(fs[p].content, secret) /\ ~Includes(fs0[p].content, secret)

\* a run with another token, accepted and without failures, would change files
OtherTokenWrites ==
    /\ ~dryRun
    /\ detectRcFile(shell, fs) # NoFile
    /\ LET r == setupRcFile(shell, fs, homeDir, FALSE, "none") IN
       \/ r.fs # fs
       \/ setupNpmrc(r.fs, r.home, org, FALSE, "none").fs # r.fs

\* the run ended because of the value of its token
EndedOnTokenValue ==
    /\ pc = "exited"
    /\ \/ exitReason = "empty-token"
       \/ exitReason = "keychain-write-failed" /\ ~ShellSyntaxOk(token)

RunsSoFar == Append(history, [org |-> org, full |-> NpmrcDone])
Writers == {i \in 1..Len(RunsSoFar) : RunsSoFar[i].full}
LastWriter == CHOOSE i \in Writers : \A j \in Writers : j <= i

\* C23: starting without ~/.npmrc, after any sequence of runs the file is
\* absent if no run got to write it, and otherwise holds exactly two lines: the
\* registry line of the org of the last run that did, then the ${NPM_TOKEN}
\* auth-token line.
C23_ConvergesToLastOrg ==
    IF Writers = {}
    THEN ~fs[Npmrc].exists
    ELSE LET o == TemplateText(RunsSoFar[LastWriter].org) IN
         /\ fs[Npmrc].exists
         /\ fs[Npmrc].content =
                <<"@">> \o o \o <<RegistrySuffix, LF, AuthTokenPrefix, "${NPM_TOKEN}", LF>>

\* the second run wrote for another organisation than the first
C23_Witness ==
    /\ run = 2 /\ NpmrcDone
    /\ history[1].full /\ history[1].org # org
    /\ Happened("write:npmrc")

\* the run ended with status 0, was no dry run, printed no usage, and its
\* confirmation was not declined
SucceededForReal ==
    /\ pc = "exited" /\ exitCode = 0
    /\ ~dryRun
    /\ exitReason # "help"
    /\ ~(answer # NoAnswer /\ ~IsYes(answer))

\* C24, as claimed: such a run leaves the Keychain entry holding the token it
\* acquired, the selected profile holding the loader block, ~/.npmrc holding
\* both desired lines of the org, and has had a non-empty answer from the
\* identity check.
C24_SuccessPostcondition ==
    SucceededForReal =>
        /\ vault = Entry(token)
        /\ RcTarget # NoFile
        /\ LoaderBlocks(fs[RcTarget].content) >= 1
        /\ fs[Npmrc].exists
        /\ DesiredRegistry \in Range(LinesOf(fs[Npmrc].content))
        /\ DesiredAuth \in Range(LinesOf(fs[Npmrc].content))
        /\ verify.ran /\ verify.status = 0 /\ ~IsBlank(verify.stdout)

PromptEvents == {"prompt:masked", "prompt:confirm"}

\* the run ended while it waited at one of its two prompts
EndedAtPrompt ==
    /\ pc = "exited"
    /\ exitReason \in {"signal", "input-interrupted", "prompt-closed"}

\* C25: in the trace of a run every prompt comes before every write to the
\* Keychain or to a file, no write happens without the confirmation having been
\* asked and accepted before it, and a run that waits at the masked read or at
\* the confirmation, or that ended there by a signal, Ctrl-C or the end of
\* input, has left Keychain entry, home directory and files as it found them.
C25_PromptsPrecedeWrites ==
    /\ \A i, j \in 1..Len(trace) :
          (trace[i] \in PromptEvents /\ trace[j] \in WriteEvents) => i < j
    /\ \A j \in 1..Len(trace) :
          trace[j] \in WriteEvents =>
              \E i, k \in 1..(j - 1) :
                  i < k /\ trace[i] = "prompt:confirm" /\ trace[k] = "accepted"
    /\ pc \in {"readHidden", "confirm"} => Untouched
    /\ EndedAtPrompt => Untouched

\* a token was typed at the masked read and the run was then interrupted at the
\* confirmation, on a machine where going on would have written everything
C25_Witness ==
    /\ EndedAtPrompt
    /\ Happened("prompt:masked") /\ Happened("prompt:confirm")
    /\ token # << >>
    /\ ~dryRun
    /\ ~vault.exists
    /\ ~fs[Npmrc].exists
    /\ Untouched

====
